---- MODULE Spec2Model ----
(***************************************************************************)
(* Model of the PiCamWebStream backend: camera selection at startup        *)
(* (build_camera, V4l2Camera::new), the two Camera implementations         *)
(* (V4l2Camera, MockCamera) and the per-connection stream loop of          *)
(* stream_handler driven by a tokio interval.                              *)
(*                                                                         *)
(* Time is a discrete clock `now`; one second is UnitsPerSecond units.     *)
(* A capture offloaded with spawn_blocking is a record in `tasks`; it      *)
(* lives on whether or not the stream that spawned it is still polled.     *)
(* A capture ends with Ok or Err; a panic inside a closure is not modelled. *)
(***************************************************************************)
EXTENDS Integers, Sequences, FiniteSets, TLC

None == "none"

\* ---------------------------------------------------------------- bounds
Consumers == {"c1", "c2"}      \* concurrent /stream connections
MaxTicks == 3                  \* ticks modelled, over all connections
MaxTime == 2                   \* last instant of the clock
UnitsPerSecond == 1            \* clock resolution
FrameRates == {1}              \* FRAME_RATE values (validated to 1..60)
Resolutions == {<<2, 1>>}      \* <<FRAME_WIDTH, FRAME_HEIGHT>>
FrameLens == {2, 4}            \* byte lengths of frames the device delivers
EnvDevices == {None, "/dev/video1"}           \* CAMERA_DEVICE values (None: unset or blank)
Devices == {"absent", "mjpg_cam", "dual_cam", "yuyv_cam", "unsupported"}
MaxWidth == 2                  \* widest image converted on its own
MaxHeight == 2                 \* tallest image converted on its own
SlackLen == 4                  \* bytes a raw buffer may exceed width*height*2 by
ByteVals == {0, 128, 255}      \* byte values of the raw buffers converted


VARIABLES
    config,       \* Config: [linux, camera_device, frame_rate, width, height]
    mainPc,       \* position of main: "build", "bind", "serving", "fatal"
    device,       \* the hardware found behind camera_device ("unprobed" before)
    devCalls,     \* calls made on the rscam handle by V4l2Camera::new, in order
    buildErr,     \* causes carried by the error V4l2Camera::new returned
    camera,       \* AppState.camera: [kind, id, pixel_format]
    constructed,  \* number of Camera objects constructed so far
    devLock,      \* Mutex<rscam::Camera>: ids of the closures holding a guard
    counter,      \* MockCamera.counter value
    counterLock,  \* Mutex<u64> of the mock: the consumers holding a guard
    now,          \* the clock
    pc,           \* per consumer: position of its stream
    camOf,        \* per consumer: id of the camera its stream captured
    start,        \* per consumer: instant its interval was created
    deadline,     \* per consumer: next scheduled tick of its interval
    lastTick,     \* per consumer: instant its latest tick fired
    nticks,       \* per consumer: ticks fired
    reqs,         \* per consumer: capture_frame calls issued
    loaded,       \* per consumer: counter value read under the mock lock
    overran,      \* per consumer: first tick whose capture outlasted a period, or 0
    outcomes,     \* per consumer: results of its captures (TRUE = Ok), in order
    chunks,       \* per consumer: kinds of the chunks yielded, in order
    yielded,      \* per consumer: the chunk handed to the transport, in full
    rendered,     \* counter values generate_frame was spawned with, in order
    conv,         \* a yuyv_to_jpeg call followed on its own: inputs and result
    tasks         \* spawn_blocking closures spawned and not yet joined/dropped

vars == <<config, mainPc, device, devCalls, buildErr, camera, constructed,
          devLock, counter, counterLock, now, pc, camOf, start, deadline,
          lastTick, nticks, reqs, loaded, overran, outcomes, chunks, yielded,
          rendered, conv, tasks>>

camVars == <<device, devCalls, buildErr, camera, constructed>>
mockVars == <<counter, counterLock, loaded, rendered>>
tickVars == <<start, deadline, lastTick, nticks, reqs>>

\* ---------------------------------------------------------------- config
\* Config::default_camera_device: /dev/video0 on linux, nothing elsewhere.
default_camera_device(linux) == IF linux THEN "/dev/video0" ELSE None

\* Config::from_env, camera_device part: the variable unless unset or blank,
\* else the platform default.
camera_device_from_env(envDevice, linux) ==
    IF envDevice # None THEN envDevice ELSE default_camera_device(linux)

\* Config::frame_interval: 1 / max(frame_rate, 1) seconds, in clock units.
frame_interval(cfg) ==
    UnitsPerSecond \div (IF cfg.frame_rate < 1 THEN 1 ELSE cfg.frame_rate)

\* ---------------------------------------------------------- V4l2Camera::new
Opens(d) == d # "absent"
Accepts(d, fmt) ==
    \/ fmt = "MJPG" /\ d \in {"mjpg_cam", "dual_cam"}
    \/ fmt = "YUYV" /\ d \in {"yuyv_cam", "dual_cam"}

\* V4l2Camera::new trying the raw format before the compressed one.
V4l2Camera_new_yuyv_first(d) ==
    IF ~Opens(d)
    THEN [ok |-> FALSE, pixel_format |-> None,
          calls |-> <<"open">>, err |-> {"open"}]
    ELSE IF Accepts(d, "YUYV")
    THEN [ok |-> TRUE, pixel_format |-> "Yuyv",
          calls |-> <<"open", "YUYV">>, err |-> {}]
    ELSE IF Accepts(d, "MJPG")
    THEN [ok |-> TRUE, pixel_format |-> "Mjpeg",
          calls |-> <<"open", "YUYV", "MJPG">>, err |-> {}]
    ELSE [ok |-> FALSE, pixel_format |-> None,
          calls |-> <<"open", "YUYV", "MJPG">>, err |-> {"MJPG", "YUYV"}]

\* V4l2Camera::new with the assignment of line 55 left out: the fallback is
\* started but pixel_format stays Mjpeg.
V4l2Camera_new_keeps_mjpeg(d) ==
    IF ~Opens(d)
    THEN [ok |-> FALSE, pixel_format |-> None,
          calls |-> <<"open">>, err |-> {"open"}]
    ELSE IF Accepts(d, "MJPG") \/ Accepts(d, "YUYV")
    THEN [ok |-> TRUE, pixel_format |-> "Mjpeg",
          calls |-> IF Accepts(d, "MJPG") THEN <<"open", "MJPG">>
                    ELSE <<"open", "MJPG", "YUYV">>,
          err |-> {}]
    ELSE [ok |-> FALSE, pixel_format |-> None,
          calls |-> <<"open", "MJPG", "YUYV">>, err |-> {"MJPG", "YUYV"}]

\* The result of V4l2Camera::new on device d: whether it is Ok, the
\* pixel_format of the object, the calls made on the handle, and the causes
\* named by the error.
V4l2Camera_new(d) ==
    IF ~Opens(d)
    THEN [ok |-> FALSE, pixel_format |-> None,
          calls |-> <<"open">>, err |-> {"open"}]
    ELSE IF Accepts(d, "MJPG")
    THEN [ok |-> TRUE, pixel_format |-> "Mjpeg",
          calls |-> <<"open", "MJPG">>, err |-> {}]
    ELSE IF Accepts(d, "YUYV")
    THEN [ok |-> TRUE, pixel_format |-> "Yuyv",
          calls |-> <<"open", "MJPG", "YUYV">>, err |-> {}]
    ELSE [ok |-> FALSE, pixel_format |-> None,
          calls |-> <<"open", "MJPG", "YUYV">>, err |-> {"MJPG", "YUYV"}]

\* build_camera propagating the error of V4l2Camera::new with `?` instead of
\* falling back: main returns before any camera exists.
build_camera_propagates ==
    /\ mainPc = "build"
    /\ IF config.linux /\ config.camera_device # None
       THEN \E d \in Devices :
              LET r == V4l2Camera_new(d) IN
              /\ device' = d
              /\ devCalls' = r.calls
              /\ buildErr' = r.err
              /\ IF r.ok
                 THEN /\ camera' = [kind |-> "v4l2", id |-> constructed + 1,
                                    pixel_format |-> r.pixel_format]
                      /\ constructed' = constructed + 1
                      /\ mainPc' = "bind"
                 ELSE /\ UNCHANGED <<camera, constructed>>
                      /\ mainPc' = "fatal"
       ELSE /\ camera' = [kind |-> "mock", id |-> constructed + 1,
                          pixel_format |-> None]
            /\ constructed' = constructed + 1
            /\ mainPc' = "bind"
            /\ UNCHANGED <<device, devCalls, buildErr>>
    /\ UNCHANGED <<conv, config, devLock, now, pc, camOf, overran, outcomes,
                   chunks, yielded, tasks>>
    /\ UNCHANGED <<mockVars, tickVars>>

\* build_camera: the device camera when built for linux, a device is
\* configured and V4l2Camera::new succeeds; the mock camera otherwise.
build_camera ==
    /\ mainPc = "build"
    /\ mainPc' = "bind"
    /\ IF config.linux /\ config.camera_device # None
       THEN \E d \in Devices :
              LET r == V4l2Camera_new(d) IN
              /\ device' = d
              /\ devCalls' = r.calls
              /\ buildErr' = r.err
              /\ IF r.ok
                 THEN /\ camera' = [kind |-> "v4l2", id |-> constructed + 1,
                                    pixel_format |-> r.pixel_format]
                      /\ constructed' = constructed + 1
                 ELSE /\ camera' = [kind |-> "mock", id |-> constructed + 1,
                                    pixel_format |-> None]
                      /\ constructed' = constructed + 1
       ELSE /\ camera' = [kind |-> "mock", id |-> constructed + 1,
                          pixel_format |-> None]
            /\ constructed' = constructed + 1
            /\ UNCHANGED <<device, devCalls, buildErr>>
    /\ UNCHANGED <<conv, config, devLock, now, pc, camOf, overran, outcomes,
                   chunks, yielded, tasks>>
    /\ UNCHANGED <<mockVars, tickVars>>

\* main after build_camera: TcpListener::bind either succeeds (the server
\* runs) or fails (main returns the error).
bind ==
    /\ mainPc = "bind"
    /\ mainPc' \in {"serving", "fatal"}
    /\ UNCHANGED <<conv, config, devLock, now, pc, camOf, overran, outcomes,
                   chunks, yielded, tasks>>
    /\ UNCHANGED <<camVars, mockVars, tickVars>>

\* ------------------------------------------------------------ the ticker
\* MissedTickBehavior::Skip in place of Burst: a late tick moves the
\* schedule to the next multiple of the period after `at`.
next_timeout_skip(timeout, at, period) ==
    at + period - ((at - timeout) % period)

\* tokio::time::interval with its default MissedTickBehavior (Burst): the
\* tick after the one scheduled at `timeout` is scheduled one period later,
\* whatever the instant `at` the tick was delivered.
next_timeout(timeout, at, period) == timeout + period

\* ------------------------------------------------------------ the chunks
\* The multipart part built for a capture result: image/jpeg for Ok,
\* text/plain camera-error for Err.
chunk_for(ok) == IF ok THEN "image/jpeg" ELSE "camera-error"

Part(kind, text, bytes) == [kind |-> kind, text |-> text, bytes |-> bytes]

\* format!("{}", n) of a length: its decimal digits, most significant first.
RECURSIVE decimal(_)
decimal(n) == IF n < 10 THEN <<n>> ELSE decimal(n \div 10) \o <<n % 10>>

\* b"camera-error"
camera_error == <<99, 97, 109, 101, 114, 97, 45, 101, 114, 114, 111, 114>>

\* The bytes of the chunk the stream yields for a capture result, part by
\* part in the order they are appended.  Ok arm: boundary line, content
\* type, Content-Length of the frame, blank line, the frame, line break.
\* Err arm: boundary line, content type, blank line, camera-error, line
\* break.
multipart_chunk(ok, payload) ==
    IF ok
    THEN <<Part("boundary", "--frame", <<>>),
           Part("Content-Type", "image/jpeg", <<>>),
           Part("Content-Length", "", decimal(Len(payload))),
           Part("blank", "", <<>>),
           Part("payload", "", payload),
           Part("crlf", "", <<>>)>>
    ELSE <<Part("boundary", "--frame", <<>>),
           Part("Content-Type", "text/plain", <<>>),
           Part("blank", "", <<>>),
           Part("payload", "", camera_error),
           Part("crlf", "", <<>>)>>

\* The Err arm breaking out of the loop after its chunk.
after_result_break(ok) == IF ok THEN "yield" ELSE "ended"

\* Position of the stream after it has built the chunk for a capture result:
\* both arms yield and the loop goes on.
after_result(ok) == "yield"

RECURSIVE Sum(_, _)
Sum(f, S) == IF S = {} THEN 0
             ELSE LET x == CHOOSE y \in S : TRUE IN f[x] + Sum(f, S \ {x})

TotalTicks == Sum(nticks, Consumers)

TasksOf(c) == {t \in tasks : t.owner = c}

\* The closure called in place by the task that polls the stream.
NewTask_in_place(c, n, kind, arg) ==
    [owner |-> c, n |-> n, kind |-> kind, arg |-> arg, pc |-> "queued",
     worker |-> "async", path |-> None, ok |-> FALSE, err |-> None,
     frame |-> <<>>, payload |-> <<>>]

\* task::spawn_blocking: the closure is handed to the pool of blocking
\* workers; nothing of it runs on the thread that polls the stream.
NewTask(c, n, kind, arg) ==
    [owner |-> c, n |-> n, kind |-> kind, arg |-> arg, pc |-> "queued",
     worker |-> "blocking", path |-> None, ok |-> FALSE, err |-> None,
     frame |-> <<>>, payload |-> <<>>]

\* ------------------------------------------------------- stream_handler
\* stream_handler: creates the interval (its first tick is due at once),
\* clones the shared camera and returns the lazy stream as the body.
stream_handler(c) ==
    /\ mainPc = "serving"
    /\ pc[c] = "idle"
    /\ pc' = [pc EXCEPT ![c] = "tick"]
    /\ camOf' = [camOf EXCEPT ![c] = camera.id]
    /\ start' = [start EXCEPT ![c] = now]
    /\ deadline' = [deadline EXCEPT ![c] = now]
    /\ UNCHANGED <<conv, config, mainPc, devLock, now, lastTick, nticks, reqs,
                   overran, outcomes, chunks, yielded, tasks>>
    /\ UNCHANGED <<camVars, mockVars>>

\* ticker.tick().await completes, and in the same poll camera.capture_frame()
\* runs up to its first suspension: the device camera spawns its blocking
\* closure; the mock camera goes for its counter lock.
tick(c) ==
    /\ pc[c] = "tick"
    /\ TotalTicks < MaxTicks
    /\ now >= deadline[c]
    /\ nticks' = [nticks EXCEPT ![c] = @ + 1]
    /\ lastTick' = [lastTick EXCEPT ![c] = now]
    /\ deadline' = [deadline EXCEPT
                      ![c] = next_timeout(@, now, frame_interval(config))]
    /\ reqs' = [reqs EXCEPT ![c] = @ + 1]
    /\ IF camera.kind = "v4l2"
       THEN /\ tasks' = tasks \cup {NewTask(c, reqs[c] + 1, "v4l2", 0)}
            /\ pc' = [pc EXCEPT ![c] = "await"]
       ELSE /\ tasks' = tasks
            /\ pc' = [pc EXCEPT ![c] = "mock_lock"]
    /\ UNCHANGED <<conv, config, mainPc, devLock, now, camOf, start, overran,
                   outcomes, chunks, yielded>>
    /\ UNCHANGED <<camVars, mockVars>>

\* The stream going on without awaiting the JoinHandle: it takes the
\* closure's state as it is and leaves the closure running.
join_without_await(c) ==
    /\ pc[c] = "await"
    /\ \E t \in {u \in tasks : u.owner = c} :
         /\ chunks' = [chunks EXCEPT ![c] = Append(@, chunk_for(t.ok))]
         /\ yielded' = [yielded EXCEPT
                          ![c] = multipart_chunk(t.ok, t.payload)]
         /\ pc' = [pc EXCEPT ![c] = after_result(t.ok)]
    /\ UNCHANGED <<conv, config, mainPc, devLock, now, camOf, overran, outcomes,
                   tasks>>
    /\ UNCHANGED <<camVars, mockVars, tickVars>>

\* The awaited JoinHandle of the capture is ready: the stream builds the
\* chunk for the result and yields it.
join(c) ==
    /\ pc[c] = "await"
    /\ \E t \in TasksOf(c) :
         /\ t.pc = "done"
         /\ tasks' = tasks \ {t}
         /\ chunks' = [chunks EXCEPT ![c] = Append(@, chunk_for(t.ok))]
         /\ yielded' = [yielded EXCEPT
                          ![c] = multipart_chunk(t.ok, t.payload)]
         /\ pc' = [pc EXCEPT ![c] = after_result(t.ok)]
    /\ overran' = [overran EXCEPT
                     ![c] = IF @ = 0 /\ now - lastTick[c] > frame_interval(config)
                            THEN nticks[c] ELSE @]
    /\ UNCHANGED <<conv, config, mainPc, devLock, now, camOf, outcomes>>
    /\ UNCHANGED <<camVars, mockVars, tickVars>>

\* The transport polls the stream again after taking the yielded chunk: the
\* loop goes back to ticker.tick().await.
resume(c) ==
    /\ pc[c] = "yield"
    /\ pc' = [pc EXCEPT ![c] = "tick"]
    /\ yielded' = [yielded EXCEPT ![c] = <<>>]
    /\ UNCHANGED <<conv, config, mainPc, devLock, now, camOf, overran, outcomes,
                   chunks, tasks>>
    /\ UNCHANGED <<camVars, mockVars, tickVars>>

\* The consumer disconnects: the body stream is dropped at one of its
\* suspension points, with whatever the transport still held of it.
\* Dropping the JoinHandle of a spawn_blocking closure detaches the closure,
\* it does not stop it.
disconnect(c) ==
    /\ pc[c] \in {"tick", "await", "yield"}
    /\ pc' = [pc EXCEPT ![c] = "dropped"]
    /\ yielded' = [yielded EXCEPT ![c] = <<>>]
    /\ UNCHANGED <<conv, config, mainPc, devLock, now, camOf, overran, outcomes,
                   chunks, tasks>>
    /\ UNCHANGED <<camVars, mockVars, tickVars>>

\* The result of a detached closure is discarded by the runtime.
discard(t) ==
    /\ t \in tasks
    /\ t.pc = "done"
    /\ pc[t.owner] = "dropped"
    /\ tasks' = tasks \ {t}
    /\ UNCHANGED <<conv, config, mainPc, devLock, now, pc, camOf, overran,
                   outcomes, chunks, yielded>>
    /\ UNCHANGED <<camVars, mockVars, tickVars>>

\* The clock advances.
advance ==
    /\ now < MaxTime
    /\ now' = now + 1
    /\ UNCHANGED <<conv, config, mainPc, devLock, pc, camOf, overran, outcomes,
                   chunks, yielded, tasks>>
    /\ UNCHANGED <<camVars, mockVars, tickVars>>

\* --------------------------------------------- V4l2Camera::capture_frame
\* A lock that never waits.
lock_always(guards) == TRUE

\* std::sync::Mutex::lock returns only when nobody holds the mutex.
lock_free(guards) == guards = {}

TaskId(t) == <<t.owner, t.n>>

Finished(t, ok, path) == [t EXCEPT !.pc = "done", !.ok = ok, !.path = path]

\* The value a closure returns: Ok(payload) or Err(err), for the frame read.
Returned(t, frame, path, res) ==
    [Finished(t, res.ok, path) EXCEPT
       !.frame = frame, !.err = res.err, !.payload = res.payload]

\* A frame of len bytes as the device delivers it.
DeviceFrame(len) == [i \in 1..len |-> 128]

\* value.max(0.0).min(255.0) as u8
clamp_u8(value) ==
    IF value < 0 THEN 0 ELSE IF value > 255 THEN 255 ELSE value

\* f32::round of num/den for den > 0: to nearest, halves away from zero.
round_ratio(num, den) ==
    IF num >= 0 THEN (2 * num + den) \div (2 * den)
    ELSE 0 - ((2 * (0 - num) + den) \div (2 * den))

\* yuv_to_rgb with u and v already centred on zero; the coefficients are
\* taken in millionths.  (The f32 products can differ from the exact ones
\* in the last place, which moves a channel by at most one step and never
\* out of the clamp.)
yuv_to_rgb(y, u, v) ==
    <<clamp_u8(round_ratio(1000000 * y + 1402000 * v, 1000000)),
      clamp_u8(round_ratio(1000000 * y - 344136 * u - 714136 * v, 1000000)),
      clamp_u8(round_ratio(1000000 * y + 1772000 * u, 1000000))>>

\* The six RGB bytes pushed for the k-th whole 4-byte chunk (Y0,U,Y1,V).
macropixel_rgb(frame, k) ==
    LET y0 == frame[4 * k - 3]
        u == frame[4 * k - 2] - 128
        y1 == frame[4 * k - 1]
        v == frame[4 * k] - 128
    IN yuv_to_rgb(y0, u, v) \o yuv_to_rgb(y1, u, v)

\* The rgb vector after the first k chunks of frame.chunks_exact(4).
RECURSIVE rgb_of(_, _)
rgb_of(frame, k) ==
    IF k = 0 THEN <<>> ELSE rgb_of(frame, k - 1) \o macropixel_rgb(frame, k)

\* JpegEncoder output for a width x height image at the given quality: the
\* encoder is a library; its bytes are stood for by the start marker, the
\* parameters and the end marker.
jpeg_encode(width, height, quality) ==
    <<255, 216, quality, height, width, 255, 217>>

\* yuyv_to_jpeg without its length check: every buffer goes to the
\* conversion loop.
yuyv_to_jpeg_unchecked(frame, width, height) ==
    LET rgb == rgb_of(frame, Len(frame) \div 4) IN
    IF Len(rgb) < width * height * 3
    THEN [ok |-> FALSE, err |-> "rgb_buffer", rgb |-> rgb, payload |-> <<>>]
    ELSE [ok |-> TRUE, err |-> None, rgb |-> rgb,
          payload |-> jpeg_encode(width, height, 85)]

\* yuyv_to_jpeg: Err when the frame is shorter than width*height*2; else
\* one RGB triple pair per whole 4-byte chunk, Err when ImageBuffer::from_vec
\* finds fewer than width*height*3 bytes, else the JPEG at quality 85.
yuyv_to_jpeg(frame, width, height) ==
    IF Len(frame) < width * height * 2
    THEN [ok |-> FALSE, err |-> "frame_too_short", rgb |-> <<>>,
          payload |-> <<>>]
    ELSE LET rgb == rgb_of(frame, Len(frame) \div 4) IN
         IF Len(rgb) < width * height * 3
         THEN [ok |-> FALSE, err |-> "rgb_buffer", rgb |-> rgb,
               payload |-> <<>>]
         ELSE [ok |-> TRUE, err |-> None, rgb |-> rgb,
               payload |-> jpeg_encode(width, height, 85)]

\* The closure's value for what camera.capture() gave (len = -1: an I/O
\* error): the error, the frame's own bytes for Mjpeg, yuyv_to_jpeg's
\* result for Yuyv.
closure_result(len, format, width, height) ==
    IF len = -1
    THEN [ok |-> FALSE, err |-> "capture_io", payload |-> <<>>]
    ELSE IF format = "Mjpeg"
    THEN [ok |-> TRUE, err |-> None, payload |-> DeviceFrame(len)]
    ELSE LET r == yuyv_to_jpeg(DeviceFrame(len), width, height) IN
         [ok |-> r.ok, err |-> r.err, payload |-> r.payload]

\* The closure starts on a blocking worker and takes the device mutex.
v4l2_lock(t) ==
    /\ t \in tasks
    /\ t.kind = "v4l2"
    /\ t.pc = "queued"
    /\ lock_free(devLock)
    /\ devLock' = devLock \cup {TaskId(t)}
    /\ tasks' = (tasks \ {t}) \cup {[t EXCEPT !.pc = "locked"]}
    /\ UNCHANGED <<conv, config, mainPc, now, pc, camOf, overran, outcomes, chunks, yielded>>
    /\ UNCHANGED <<camVars, mockVars, tickVars>>

\* capture_frame renegotiating after a failed read: an I/O error switches
\* the object to the other pixel format and restarts the device with it.
v4l2_capture_renegotiates(t) ==
    /\ t \in tasks
    /\ t.pc = "locked"
    /\ \E len \in FrameLens \cup {-1} :
         LET res == closure_result(len, camera.pixel_format, config.width,
                                   config.height)
             path == IF len = -1 THEN None
                     ELSE IF camera.pixel_format = "Mjpeg" THEN "to_vec"
                     ELSE "yuyv_to_jpeg"
             other == IF camera.pixel_format = "Mjpeg" THEN "Yuyv"
                      ELSE "Mjpeg"
         IN /\ tasks' = (tasks \ {t}) \cup
                          {Returned(t, IF len = -1 THEN <<>>
                                       ELSE DeviceFrame(len), path, res)}
            /\ outcomes' = [outcomes EXCEPT ![t.owner] = Append(@, res.ok)]
            /\ camera' = IF len = -1
                         THEN [camera EXCEPT !.pixel_format = other]
                         ELSE camera
            /\ devCalls' = IF len = -1
                           THEN Append(devCalls,
                                       IF other = "Yuyv" THEN "YUYV" ELSE "MJPG")
                           ELSE devCalls
    /\ devLock' = devLock \ {TaskId(t)}
    /\ UNCHANGED <<conv, config, mainPc, now, pc, camOf, overran, chunks, yielded>>
    /\ UNCHANGED <<device, buildErr, constructed>>
    /\ UNCHANGED <<mockVars, tickVars>>

\* The closure leaking its guard on the error paths: only a capture that
\* returns a frame unlocks the device.
v4l2_capture_keeps_guard(t) ==
    /\ t \in tasks
    /\ t.pc = "locked"
    /\ \E len \in FrameLens \cup {-1} :
         LET res == closure_result(len, camera.pixel_format, config.width,
                                   config.height)
             path == IF len = -1 THEN None
                     ELSE IF camera.pixel_format = "Mjpeg" THEN "to_vec"
                     ELSE "yuyv_to_jpeg"
         IN /\ tasks' = (tasks \ {t}) \cup
                          {Returned(t, IF len = -1 THEN <<>>
                                       ELSE DeviceFrame(len), path, res)}
            /\ outcomes' = [outcomes EXCEPT ![t.owner] = Append(@, res.ok)]
            /\ devLock' = IF res.ok THEN devLock \ {TaskId(t)} ELSE devLock
    /\ UNCHANGED <<conv, config, mainPc, now, pc, camOf, overran, chunks, yielded>>
    /\ UNCHANGED <<camVars, mockVars, tickVars>>

\* The rest of the closure, under the guard: camera.capture() either fails
\* with an I/O error or delivers a frame; the frame is returned as it is for
\* Mjpeg and goes through yuyv_to_jpeg for Yuyv.  The closure returns and
\* the guard is dropped.
v4l2_capture(t) ==
    /\ t \in tasks
    /\ t.pc = "locked"
    /\ \E len \in FrameLens \cup {-1} :
         LET res == closure_result(len, camera.pixel_format, config.width,
                                   config.height)
             path == IF len = -1 THEN None
                     ELSE IF camera.pixel_format = "Mjpeg" THEN "to_vec"
                     ELSE "yuyv_to_jpeg"
         IN /\ tasks' = (tasks \ {t}) \cup
                          {Returned(t, IF len = -1 THEN <<>>
                                       ELSE DeviceFrame(len), path, res)}
            /\ outcomes' = [outcomes EXCEPT ![t.owner] = Append(@, res.ok)]
    /\ devLock' = devLock \ {TaskId(t)}
    /\ UNCHANGED <<conv, config, mainPc, now, pc, camOf, overran, chunks, yielded>>
    /\ UNCHANGED <<camVars, mockVars, tickVars>>

\* --------------------------------------------- MockCamera::capture_frame
\* self.counter.lock() and the first half of *guard += 1: the polling
\* thread takes the counter mutex and reads the current count.
mock_lock(c) ==
    /\ pc[c] = "mock_lock"
    /\ lock_free(counterLock)
    /\ counterLock' = counterLock \cup {c}
    /\ loaded' = [loaded EXCEPT ![c] = counter]
    /\ pc' = [pc EXCEPT ![c] = "mock_store"]
    /\ UNCHANGED <<conv, config, mainPc, devLock, now, camOf, overran, outcomes,
                   chunks, yielded, tasks, counter, rendered>>
    /\ UNCHANGED <<camVars, tickVars>>

\* capture_frame keeping the guard of the counter across the rendering: the
\* guard lives until the function returns.
mock_store_keeps_guard(c) ==
    /\ pc[c] = "mock_store"
    /\ counter' = loaded[c] + 1
    /\ loaded' = [loaded EXCEPT ![c] = 0]
    /\ tasks' = tasks \cup {NewTask(c, reqs[c], "mock", loaded[c] + 1)}
    /\ rendered' = Append(rendered, loaded[c] + 1)
    /\ pc' = [pc EXCEPT ![c] = "await"]
    /\ UNCHANGED <<conv, config, mainPc, devLock, now, camOf, overran, outcomes,
                   chunks, yielded, counterLock>>
    /\ UNCHANGED <<camVars, tickVars>>

\* *guard += 1, second half, and the rest of the poll: the incremented count
\* is written and copied out, the guard is dropped, generate_frame is spawned
\* with the copy and the stream awaits its JoinHandle.
\* (The count is a u64; the runs modelled stay far below 2^64.)
mock_store(c) ==
    /\ pc[c] = "mock_store"
    /\ counter' = loaded[c] + 1
    /\ counterLock' = counterLock \ {c}
    /\ loaded' = [loaded EXCEPT ![c] = 0]
    /\ tasks' = tasks \cup {NewTask(c, reqs[c], "mock", loaded[c] + 1)}
    /\ rendered' = Append(rendered, loaded[c] + 1)
    /\ pc' = [pc EXCEPT ![c] = "await"]
    /\ UNCHANGED <<conv, config, mainPc, devLock, now, camOf, overran, outcomes,
                   chunks, yielded>>
    /\ UNCHANGED <<camVars, tickVars>>

\* A blocking worker picks the generate_frame closure up.
mock_start(t) ==
    /\ t \in tasks
    /\ t.kind = "mock"
    /\ t.pc = "queued"
    /\ tasks' = (tasks \ {t}) \cup {[t EXCEPT !.pc = "running"]}
    /\ UNCHANGED <<conv, config, mainPc, devLock, now, pc, camOf, overran,
                   outcomes, chunks, yielded>>
    /\ UNCHANGED <<camVars, mockVars, tickVars>>

\* generate_frame's value: the JPEG of the pattern at quality 80, or the
\* encoder's error.
generate_frame(width, height, ok) ==
    IF ok
    THEN [ok |-> TRUE, err |-> None, payload |-> jpeg_encode(width, height, 80)]
    ELSE [ok |-> FALSE, err |-> "encode", payload |-> <<>>]

\* generate_frame on the blocking worker: the JPEG, or the encoder's error.
mock_generate(t) ==
    /\ t \in tasks
    /\ t.kind = "mock"
    /\ t.pc = "running"
    /\ \E ok \in BOOLEAN :
         /\ tasks' = (tasks \ {t}) \cup
                       {Returned(t, <<>>, "generate_frame",
                                 generate_frame(config.width, config.height,
                                                ok))}
         /\ outcomes' = [outcomes EXCEPT ![t.owner] = Append(@, ok)]
    /\ UNCHANGED <<conv, config, mainPc, devLock, now, pc, camOf, overran, chunks, yielded>>
    /\ UNCHANGED <<camVars, mockVars, tickVars>>

\* ------------------------------------------------------------------ system
Configs ==
    {[linux |-> l, camera_device |-> camera_device_from_env(e, l),
      frame_rate |-> r, width |-> wh[1], height |-> wh[2]] :
        l \in BOOLEAN, e \in EnvDevices, r \in FrameRates,
        wh \in Resolutions}

TaskRecords ==
    [owner : Consumers, n : 1..MaxTicks, kind : {"v4l2", "mock"},
     arg : Nat, pc : {"queued", "locked", "running", "done"},
     worker : {"blocking"}, path : STRING, ok : BOOLEAN, err : STRING,
     frame : Seq(0..255), payload : Seq(0..255)]

\* No yuyv_to_jpeg call is followed on its own.
NoConversion ==
    [stage |-> "none", width |-> 0, height |-> 0, frame |-> <<>>,
     ok |-> FALSE, err |-> None, rgb |-> <<>>]

InitSystem ==
    /\ config \in Configs
    /\ mainPc = "build"
    /\ device = "unprobed"
    /\ devCalls = <<>>
    /\ buildErr = {}
    /\ camera = [kind |-> None, id |-> 0, pixel_format |-> None]
    /\ constructed = 0
    /\ devLock = {}
    /\ counter = 0
    /\ counterLock = {}
    /\ now = 0
    /\ pc = [c \in Consumers |-> "idle"]
    /\ camOf = [c \in Consumers |-> 0]
    /\ start = [c \in Consumers |-> 0]
    /\ deadline = [c \in Consumers |-> 0]
    /\ lastTick = [c \in Consumers |-> 0]
    /\ nticks = [c \in Consumers |-> 0]
    /\ reqs = [c \in Consumers |-> 0]
    /\ loaded = [c \in Consumers |-> 0]
    /\ overran = [c \in Consumers |-> 0]
    /\ outcomes = [c \in Consumers |-> <<>>]
    /\ chunks = [c \in Consumers |-> <<>>]
    /\ yielded = [c \in Consumers |-> <<>>]
    /\ rendered = <<>>
    /\ tasks = {}

Init == InitSystem /\ conv = NoConversion

Next ==
    \/ build_camera
    \/ bind
    \/ advance
    \/ \E c \in Consumers : stream_handler(c)
    \/ \E c \in Consumers : tick(c)
    \/ \E c \in Consumers : join(c)
    \/ \E c \in Consumers : resume(c)
    \/ \E c \in Consumers : disconnect(c)
    \/ \E c \in Consumers : mock_lock(c)
    \/ \E c \in Consumers : mock_store(c)
    \/ \E t \in tasks : v4l2_lock(t)
    \/ \E t \in tasks : v4l2_capture(t)
    \/ \E t \in tasks : mock_start(t)
    \/ \E t \in tasks : mock_generate(t)
    \/ \E t \in tasks : discard(t)

Spec == Init /\ [][Next]_vars

\* The scheduling the runtime and the device are taken to give: a device
\* read that was started returns; a closure that keeps finding the device
\* mutex free from time to time gets it (fair lock acquisition); a stream
\* whose awaited closure has returned is polled.
Fairness ==
    /\ WF_vars(\E t \in tasks : v4l2_capture(t))
    /\ \A c \in Consumers : SF_vars(\E t \in TasksOf(c) : v4l2_lock(t))
    /\ \A c \in Consumers : WF_vars(join(c))

\* The server on a linux machine with CAMERA_DEVICE unset, whose
\* /dev/video0 is a camera that takes YUYV only: the device camera is built,
\* and the steps of the mock camera never occur.
InitDevice ==
    /\ Init
    /\ config.linux
    /\ config.camera_device = default_camera_device(TRUE)

NextDevice ==
    \/ build_camera /\ device' = "yuyv_cam"
    \/ bind
    \/ advance
    \/ \E c \in Consumers : stream_handler(c)
    \/ \E c \in Consumers : tick(c)
    \/ \E c \in Consumers : join(c)
    \/ \E c \in Consumers : resume(c)
    \/ \E c \in Consumers : disconnect(c)
    \/ \E t \in tasks : v4l2_lock(t)
    \/ \E t \in tasks : v4l2_capture(t)
    \/ \E t \in tasks : discard(t)

FairSpec == InitDevice /\ [][NextDevice]_vars /\ Fairness

\* ---------------------------------------------- yuyv_to_jpeg on its own
\* Raw buffers: a macropixel pattern repeated up to a length.
RawFrame(pattern, len) == [i \in 1..len |-> pattern[((i - 1) % 4) + 1]]

ConversionInputs ==
    {[stage |-> "input", width |-> w, height |-> h,
      frame |-> RawFrame(p, len), ok |-> FALSE, err |-> None, rgb |-> <<>>] :
        w \in 1..MaxWidth, h \in 1..MaxHeight,
        p \in [1..4 -> ByteVals],
        len \in 0..(2 * MaxWidth * MaxHeight + SlackLen)}

\* yuyv_to_jpeg is called on the buffer and returns.
convert ==
    /\ conv.stage = "input"
    /\ LET r == yuyv_to_jpeg(conv.frame, conv.width, conv.height) IN
         conv' = [conv EXCEPT !.stage = "returned", !.ok = r.ok,
                              !.err = r.err, !.rgb = r.rgb]
    /\ UNCHANGED <<config, mainPc, devLock, now, pc, camOf, overran, outcomes,
                   chunks, yielded, tasks>>
    /\ UNCHANGED <<camVars, mockVars, tickVars>>

InitConvert == InitSystem /\ conv \in ConversionInputs

NextConvert == convert

SpecConvert == InitConvert /\ [][NextConvert]_vars

TypeOK ==
    /\ mainPc \in {"build", "bind", "serving", "fatal"}
    /\ now \in 0..MaxTime
    /\ \A c \in Consumers : nticks[c] \in 0..MaxTicks
    /\ tasks \subseteq TaskRecords

\* ------------------------------------------------------------------ claims
JpegChunks(c) ==
    Cardinality({i \in 1..Len(chunks[c]) : chunks[c][i] = "image/jpeg"})

Connected(c) == pc[c] # "idle"

\* C1: in the stream loop every tick issues exactly one capture_frame call
\* and leads to exactly one chunk; the i-th chunk is image/jpeg when the
\* i-th capture succeeded and camera-error when it failed; a failed capture
\* never ends the stream.
C1_OneChunkPerTick ==
    \A c \in Consumers :
      /\ reqs[c] = nticks[c]
      /\ Len(outcomes[c]) <= reqs[c]
      /\ Len(chunks[c]) <= Len(outcomes[c])
      /\ reqs[c] <= Len(chunks[c]) + 1
      /\ \A i \in 1..Len(chunks[c]) :
           chunks[c][i] = IF outcomes[c][i] THEN "image/jpeg"
                          ELSE "camera-error"
      /\ pc[c] \in {"idle", "tick", "mock_lock", "mock_store", "await",
                    "yield", "dropped"}
      /\ pc[c] \in {"tick", "yield"} => Len(chunks[c]) = nticks[c]

\* A stream that emitted a frame, then an error, then a frame again, and is
\* back waiting for its next tick.
C1_Witness ==
    \E c \in Consumers :
      /\ chunks[c] = <<"image/jpeg", "camera-error", "image/jpeg">>
      /\ pc[c] = "tick"

\* C2: at most one capture_frame closure holds the device handle and reads
\* the device at any time, and only capture_frame closures that hold the
\* guard of the mutex do.
C2_DeviceExclusive ==
    /\ Cardinality({t \in tasks : t.pc = "locked"}) <= 1
    /\ Cardinality(devLock) <= 1
    /\ devLock = {TaskId(t) : t \in {u \in tasks : u.pc = "locked"}}
    /\ \A t \in tasks : t.pc = "locked" => t.kind = "v4l2"

\* One closure reads the device while the closure of another consumer waits
\* for the mutex.
C2_Witness ==
    \E t, u \in tasks :
      /\ t.owner # u.owner
      /\ t.pc = "locked"
      /\ u.kind = "v4l2" /\ u.pc = "queued"

\* Calls of MockCamera::capture_frame that have made their increment.
IncrementsMade ==
    Sum([c \in Consumers |->
           IF pc[c] \in {"mock_lock", "mock_store"} THEN reqs[c] - 1
           ELSE reqs[c]], Consumers)

SuccessfulReturns == Sum([c \in Consumers |-> JpegChunks(c)], Consumers)

NoCallInProgress ==
    /\ tasks = {}
    /\ \A c \in Consumers : pc[c] \notin {"mock_lock", "mock_store", "await"}

\* C3 as stated: once no capture_frame call is in progress, the mock counter
\* equals the number of calls that returned success.
C3_CounterCountsSuccesses ==
    (camera.kind = "mock" /\ NoCallInProgress) => counter = SuccessfulReturns

\* C3 as amended: every capture_frame call of the mock adds exactly one to
\* the counter when it makes its increment, whether it later succeeds, fails
\* or is abandoned; no increment is lost under concurrent callers, the
\* counter never decreases, and it is never below the number of successful
\* returns.
C3_CounterCountsCalls ==
    /\ [](camera.kind = "mock" =>
            /\ counter = IncrementsMade
            /\ counter >= SuccessfulReturns)
    /\ [][counter' = counter \/ counter' = counter + 1]_vars

\* One caller is between the two halves of its increment while another
\* waits for the counter mutex, after an earlier increment.
C3_Witness ==
    \E c, d \in Consumers :
      /\ pc[c] = "mock_store"
      /\ pc[d] = "mock_lock"
      /\ counter >= 1

\* C4: a device that rejects MJPG and accepts YUYV yields a device camera
\* with pixel_format Yuyv after both formats were tried in order, and every
\* capture that returns a frame went through yuyv_to_jpeg; a device that
\* rejects both makes V4l2Camera::new fail with both causes in its error.
C4_Negotiation ==
    /\ device = "yuyv_cam" =>
         /\ camera.kind = "v4l2"
         /\ camera.pixel_format = "Yuyv"
         /\ devCalls = <<"open", "MJPG", "YUYV">>
         /\ buildErr = {}
         /\ \A t \in tasks :
              /\ t.path \in {None, "yuyv_to_jpeg"}
              /\ (t.pc = "done" /\ t.ok) => t.path = "yuyv_to_jpeg"
    /\ device = "unsupported" =>
         /\ camera.kind = "mock"
         /\ buildErr = {"MJPG", "YUYV"}

\* On the fallback device a capture has returned a frame converted by
\* yuyv_to_jpeg.
C4_Witness ==
    /\ device = "yuyv_cam"
    /\ \E t \in tasks : t.pc = "done" /\ t.ok /\ t.path = "yuyv_to_jpeg"

\* C5 as stated: once a consumer has disconnected, no closure spawned for it
\* starts accessing the device (takes the device mutex).
C5_NoDeviceAccessAfterDisconnect ==
    [][\A t \in tasks :
         (pc[t.owner] = "dropped" /\ t.kind = "v4l2" /\ t.pc = "queued")
           => ~ \E u \in tasks' : TaskId(u) = TaskId(t) /\ u.pc = "locked"]_vars

\* C6 as stated: two consecutive ticks of one stream are at least one period
\* apart.
C6_TicksOnePeriodApart ==
    [][\A c \in Consumers :
         (nticks'[c] = nticks[c] + 1 /\ nticks[c] >= 1)
           => now - lastTick[c] >= frame_interval(config)]_vars

C8_CapturesSequential ==
    \A c \in Consumers :
      /\ Cardinality(TasksOf(c))
           + (IF pc[c] \in {"mock_lock", "mock_store"} THEN 1 ELSE 0) <= 1
      /\ pc[c] \in {"tick", "yield"} =>
           /\ TasksOf(c) = {}
           /\ Len(chunks[c]) = reqs[c]
      /\ pc[c] \in {"mock_lock", "mock_store", "await"} =>
           Len(chunks[c]) = reqs[c] - 1

\* A stream awaits its second capture, the first one joined and emitted.
C8_Witness ==
    \E c \in Consumers :
      /\ pc[c] = "await"
      /\ reqs[c] = 2
      /\ Len(chunks[c]) = 1
      /\ Cardinality(TasksOf(c)) = 1

\* C9: once a device camera exists, no step changes its pixel_format or
\* makes another start call on the device.
C9_PixelFormatFixed ==
    [][camera.kind = "v4l2" => (camera' = camera /\ devCalls' = devCalls)]_vars

\* On a device camera one consumer got an error chunk and another a frame.
C9_Witness ==
    /\ camera.kind = "v4l2"
    /\ \E c, d \in Consumers :
         /\ c # d
         /\ chunks[c] # <<>> /\ chunks[c][1] = "camera-error"
         /\ chunks[d] # <<>> /\ chunks[d][1] = "image/jpeg"

\* The kind of camera build_camera is to select.
ExpectedKind ==
    IF /\ config.linux
       /\ config.camera_device # None
       /\ Opens(device)
       /\ (Accepts(device, "MJPG") \/ Accepts(device, "YUYV"))
    THEN "v4l2" ELSE "mock"

\* C10: build_camera leaves exactly one camera object, the device camera
\* when a device is configured and opens and negotiates, the mock camera
\* otherwise; it always completes, the object is never replaced, and every
\* stream uses it.
C10_OneCameraForProcess ==
    mainPc # "build" =>
      /\ constructed = 1
      /\ camera.id = 1
      /\ camera.kind = ExpectedKind
      /\ \A c \in Consumers : Connected(c) => camOf[c] = camera.id

\* The device failed to open or to negotiate, and two streams run on the
\* mock camera that replaced it.
C10_Witness ==
    /\ device \in {"absent", "unsupported"}
    /\ camera.kind = "mock"
    /\ \A c \in Consumers : camOf[c] = camera.id /\ chunks[c] # <<>>

RECURSIVE from_decimal(_)
from_decimal(digits) ==
    IF digits = <<>> THEN 0
    ELSE 10 * from_decimal(SubSeq(digits, 1, Len(digits) - 1))
         + digits[Len(digits)]

PartKinds(chunk) == [i \in 1..Len(chunk) |-> chunk[i].kind]

\* C12: every chunk the stream yields, for a frame or for an error, is made
\* of a boundary line, a content-type line, a length header, a blank line,
\* the payload and a line break, in this order, and the length header
\* gives the byte count of the payload.
C12_ChunkFramed ==
    \A c \in Consumers :
      yielded[c] # <<>> =>
        /\ PartKinds(yielded[c]) = <<"boundary", "Content-Type",
                                     "Content-Length", "blank", "payload",
                                     "crlf">>
        /\ from_decimal(yielded[c][3].bytes) = Len(yielded[c][5].bytes)

\* C13: for every width > 0 and height > 0 and every raw buffer of
\* exactly width*height*2 bytes, the conversion in yuyv_to_jpeg succeeds
\* and its RGB buffer has exactly width*height*3 bytes, each in 0..255.
C13_ConversionExact ==
    conv.stage = "returned"
      /\ Len(conv.frame) = conv.width * conv.height * 2 =>
        /\ conv.ok
        /\ Len(conv.rgb) = conv.width * conv.height * 3
        /\ \A i \in 1..Len(conv.rgb) : conv.rgb[i] \in 0..255

ShortFrame(t) ==
    /\ t.kind = "v4l2"
    /\ t.pc = "done"
    /\ t.path = "yuyv_to_jpeg"
    /\ Len(t.frame) < config.width * config.height * 2

\* C14: a raw buffer shorter than width*height*2 makes yuyv_to_jpeg fail at
\* its length check, before any RGB or JPEG byte exists; the capture_frame
\* of that frame returns Err, and the stream that awaited it yields one
\* camera-error chunk for it and stays in its loop.
C14_ShortFrameRejected ==
    /\ [](\A t \in tasks :
            ShortFrame(t) =>
              ~t.ok /\ t.err = "frame_too_short" /\ t.payload = <<>>)
    /\ [][\A c \in Consumers :
            (\E t \in TasksOf(c) : ShortFrame(t)) /\ pc[c] = "await"
              /\ pc'[c] \notin {"await", "dropped"} =>
                /\ chunks'[c] = Append(chunks[c], "camera-error")
                /\ yielded'[c] = multipart_chunk(FALSE, <<>>)
                /\ pc'[c] = "yield"]_vars

\* A stream on a Yuyv camera that yielded its first chunk for a failed
\* capture, ticked again, and whose second capture has just failed on a
\* short buffer.
C14_Witness ==
    \E c \in Consumers :
      /\ chunks[c] = <<"camera-error">>
      /\ outcomes[c] = <<FALSE, FALSE>>
      /\ \E t \in TasksOf(c) :
           t.n = 2 /\ ShortFrame(t) /\ t.err = "frame_too_short"

\* C15: on the device camera the lock of the device mutex, the read of the
\* frame and the conversion are all steps of a closure run by a blocking
\* worker: every guard of the device mutex is held by such a closure, never
\* by a stream, and while the closure exists its stream has only spawned it
\* and sits at the await of its JoinHandle (or is gone).
C15_DeviceWorkOffloaded ==
    /\ \A t \in tasks :
         t.kind = "v4l2" =>
           /\ t.worker = "blocking"
           /\ pc[t.owner] \in {"await", "dropped"}
    /\ \A g \in devLock :
         \E t \in tasks :
           /\ TaskId(t) = g
           /\ t.kind = "v4l2"
           /\ t.worker = "blocking"
           /\ t.pc = "locked"
    /\ camera.kind = "v4l2" =>
         \A c \in Consumers : pc[c] \notin {"mock_lock", "mock_store"}

\* On a Yuyv camera: one closure holds the device at its read while the
\* closure of the other stream has returned its converted frame, and both
\* streams sit at their awaits.
C15_Witness ==
    /\ camera.pixel_format = "Yuyv"
    /\ \E t \in tasks, u \in tasks :
         /\ t.pc = "locked" /\ TaskId(t) \in devLock
         /\ u.pc = "done" /\ u.path = "yuyv_to_jpeg" /\ u.ok
         /\ pc[t.owner] = "await" /\ pc[u.owner] = "await"
         /\ t.owner # u.owner

\* The thread polling the stream of c is parked inside counter.lock(): the
\* stream is at its lock call and another stream holds the guard.
WaitsOnCounterLock(c) == pc[c] = "mock_lock" /\ ~lock_free(counterLock)

\* C16: in MockCamera::capture_frame the thread that polls the stream never
\* waits on the lock of the counter, and the pixels are generated by a
\* blocking worker.
C16_MockNeverBlocksScheduler ==
    /\ \A c \in Consumers : ~WaitsOnCounterLock(c)
    /\ \A t \in tasks : t.kind = "mock" => t.worker = "blocking"

\* C17: V4l2Camera::new opens the device and then tries the formats in a
\* fixed order: no format is tried when the open fails; MJPG is tried
\* first, right after the open; YUYV is tried only right after MJPG and
\* only on a device that rejected MJPG.  On a device that accepts MJPG the
\* fallback is never tried, the camera is Mjpeg, and every capture_frame
\* that read a frame returns the bytes of that frame as they are.
C17_FormatOrder ==
    /\ device = "absent" => devCalls = <<"open">>
    /\ \A i \in 1..Len(devCalls) :
         /\ devCalls[i] = "open" => i = 1
         /\ devCalls[i] = "MJPG" => i = 2
         /\ devCalls[i] = "YUYV" =>
              i = 3 /\ devCalls[2] = "MJPG" /\ ~Accepts(device, "MJPG")
    /\ device # "unprobed" /\ Accepts(device, "MJPG") =>
         /\ devCalls = <<"open", "MJPG">>
         /\ camera.kind = "v4l2"
         /\ camera.pixel_format = "Mjpeg"
         /\ \A t \in tasks :
              t.pc = "done" /\ t.path # None =>
                t.ok /\ t.path = "to_vec" /\ t.payload = t.frame
         /\ \A c \in Consumers :
              yielded[c] # <<>> /\ yielded[c][2].text = "image/jpeg" =>
                \E len \in FrameLens :
                  yielded[c][5].bytes = DeviceFrame(len)

\* On a device that accepts both formats, a capture has returned the frame
\* it read and its stream has yielded those bytes.
C17_Witness ==
    /\ device = "dual_cam"
    /\ devCalls = <<"open", "MJPG">>
    /\ \E t \in tasks :
         t.pc = "done" /\ t.ok /\ Len(t.frame) = 4 /\ t.payload = t.frame
    /\ \E c \in Consumers :
         yielded[c] # <<>> /\ yielded[c][2].text = "image/jpeg"

\* C18: on the mock camera only the increment of the counter is
\* serialized: a guard of the counter mutex is held only by a stream between
\* its lock and the end of its increment, by one stream at a time; it is
\* dropped before the rendering is spawned, so no stream whose rendering is
\* queued or running holds it.  (That two renderings run at the same time is
\* the witness.)
C18_OnlyIncrementSerialized ==
    /\ Cardinality(counterLock) <= 1
    /\ \A c \in counterLock : pc[c] = "mock_store"
    /\ \A c \in Consumers : pc[c] = "mock_store" => c \in counterLock
    /\ \A t \in tasks : t.kind = "mock" => t.owner \notin counterLock

\* Two renderings run at the same time, with the counter lock free.
C18_Witness ==
    /\ lock_free(counterLock)
    /\ \E t \in tasks, u \in tasks :
         /\ t.owner # u.owner
         /\ t.kind = "mock" /\ u.kind = "mock"
         /\ t.pc = "running" /\ u.pc = "running"

\* C19: every capture_frame of the mock camera renders with the counter
\* value its own increment produced: the values generate_frame was spawned
\* with are, in spawn order, 1, 2, ..., n for the n increments made so far,
\* so no two calls render with the same value; a rendering in flight carries
\* one of these values, and the latest one if it is the latest spawned.
C19_RenderedValues ==
    /\ Len(rendered) = counter
    /\ \A i \in 1..Len(rendered) : rendered[i] = i
    /\ \A t \in tasks :
         t.kind = "mock" =>
           /\ t.arg \in 1..counter
           /\ \A u \in tasks :
                u.kind = "mock" /\ u.arg = t.arg => u = t

\* Three increments made; the renderings spawned with 2 and with 3 are
\* both in flight.
C19_Witness ==
    /\ rendered = <<1, 2, 3>>
    /\ \E t \in tasks, u \in tasks :
         /\ t.kind = "mock" /\ u.kind = "mock"
         /\ t.arg = 2 /\ u.arg = 3
         /\ t.owner # u.owner

\* A capture_frame request of consumer c on the device camera has been
\* issued and its closure has not returned yet.  (The requests of one
\* consumer follow one another, so at most one is pending at a time.)
Pending(c) ==
    \E t \in tasks : t.owner = c /\ t.kind = "v4l2" /\ t.pc # "done"

\* C20: the device mutex never deadlocks: a held guard always belongs to
\* one closure that is at its read and can finish, and that closure gives
\* the guard back whether it returns Ok or Err (a returned closure holds
\* none); and when device reads return and the lock is acquired fairly,
\* every capture_frame issued on the device camera eventually returns and
\* every stream awaiting one eventually yields its chunk, unless its
\* consumer disconnects first.
C20_NoDeviceDeadlock ==
    /\ [](/\ devLock # {} =>
              \E t \in tasks : t.pc = "locked" /\ devLock = {TaskId(t)}
          /\ \A t \in tasks : t.pc = "done" => TaskId(t) \notin devLock)
    /\ \A c \in Consumers : Pending(c) ~> ~Pending(c)
    /\ \A c \in Consumers :
         (camera.kind = "v4l2" /\ pc[c] = "await")
           ~> (pc[c] \in {"yield", "dropped"})

\* A closure waits for the device mutex while the closure of the other
\* stream holds it, after an earlier capture has failed.
C20_Witness ==
    \E t \in tasks, u \in tasks :
      /\ t.kind = "v4l2" /\ t.pc = "queued"
      /\ u.pc = "locked" /\ TaskId(u) \in devLock
      /\ pc[t.owner] = "await" /\ pc[u.owner] = "await"
      /\ \E c \in Consumers : outcomes[c] # <<>> /\ ~outcomes[c][1]

====
